---------------------------- MODULE Spec2Model ----------------------------
(***************************************************************************)
(* Model of the integration-test master DAG                                *)
(* (python-sdk/tests_integration/astro_deploy/master_dag.py):              *)
(*   - prepare_dag_dependency, the trigger-set builder;                    *)
(*   - get_report, the run-report aggregator;                              *)
(*   - the task graph of example_master_dag and its trigger rules;         *)
(*   - the dag file's run-id list, the runs the trigger tasks wait for,    *)
(*     and the EC2 instance started and terminated by the dag.             *)
(* Python strings are TLA+ strings (\o is concatenation); an optional      *)
(* Python value is None (the empty tuple) or Some(v) (a one-element one).  *)
(***************************************************************************)
EXTENDS Integers, Sequences, FiniteSets, Bags, TLC

VARIABLES
    \* ---- prepare_dag_dependency -------------------------------------
    task_info,        \* argument: sequence of single-entry dicts task_id -> dag id
    execution_time,   \* argument: the timestamp string
    built,            \* the function has returned
    task_list,        \* returned _task_list
    built_run_ids     \* returned _dag_run_ids

VARIABLES
    \* ---- get_report --------------------------------------------------
    db,               \* the DagRun table: a set of run records
    dag_run_ids,      \* argument: the run ids to report on
    env,              \* os.environ: variable -> None | Some(value)
    xcom,             \* values pushed by the master's tasks: task id -> None | Some(value)
    master_tis,       \* context["dag_run"]: the master run's own task instances
    slack_ok,         \* whether SlackWebhookOperator.execute succeeds
    calls,            \* number of get_report invocations in this master execution
    report            \* what the last invocation computed, logged, sent and raised

VARIABLES
    \* ---- one execution of example_master_dag -------------------------
    ti_state,         \* task id -> state of its task instance
    exec_count,       \* task id -> number of times its callable was executed
    remote,           \* trigger task id -> state of the dag run it triggered
    instance,         \* the EC2 instance created by start_sftp_ftp_services
    ti_xcom,          \* XCom key -> value pushed by start_sftp_ftp_services
    terminated        \* instance ids handed to ec2.terminate_instances, in order

VARIABLES
    \* ---- the module-level code that defines example_master_dag ------
    groups_done,      \* number of prepare_dag_dependency calls made so far
    returned,         \* what each of these calls returned, in call order
    ids_list,         \* the module-level list dag_run_ids
    report_kwargs     \* op_kwargs["dag_run_ids"] of the report operator, once defined

bvars == <<task_info, execution_time, built, task_list, built_run_ids>>
rvars == <<db, dag_run_ids, env, xcom, master_tis, slack_ok, calls, report>>

dvars == <<ti_state, exec_count>>
evars == <<remote, instance, ti_xcom, terminated>>
mvars == <<groups_done, returned, ids_list, report_kwargs>>

vars == <<bvars, rvars, dvars, evars, mvars>>

-----------------------------------------------------------------------------
(* Bounds *)

\* longest task_info list handed to prepare_dag_dependency
MaxSpecs == 2

\* number of run ids handed to get_report
MaxRuns == 2

\* number of trigger groups of the master dag that are executed
MaxGroups == 2

\* number of trigger tasks of a group that are executed
MaxChain == 2

\* number of version/environment tasks of the master dag that are executed
MaxInfo == 2

-----------------------------------------------------------------------------
(* Python values *)

None == <<>>
Some(v) == <<v>>

\* str(v) as an f-string renders it
PyStr(v) == IF v = None THEN "None" ELSE v[1]

\* "".join(lines)
RECURSIVE Join(_)
Join(lines) == IF lines = <<>> THEN "" ELSE Head(lines) \o Join(Tail(lines))

\* {key: value}
Dict(key, value) == [k \in {key} |-> value]

Range(s) == {s[i] : i \in DOMAIN s}

SeqsUpTo(S, n) == UNION {[1..k -> S] : k \in 0..n}

-----------------------------------------------------------------------------
(* prepare_dag_dependency *)

\* task ids and dag ids of the inputs; real ids contain underscores
\* (example_load_file, example_amazon_s3_postgres, ...)
Ids == {"a", "a_b", "b_c", "c"}

Times == {"{{ ds }}", "2023-01-01"}

\* list(_example_dag.keys())[0]
FirstKey(d) == CHOOSE k \in DOMAIN d : TRUE

\* faulty variant: the run id leaves out the triggered dag id
RunIdOfNoTarget(d, time) == FirstKey(d) \o "_" \o time

\* f"{_task_id}_{_example_dag.get(_task_id)}_" + execution_time
RunIdOf(d, time) == FirstKey(d) \o "_" \o d[FirstKey(d)] \o "_" \o time

TriggerDagRunOperator(d, time) ==
    [task_id             |-> FirstKey(d),
     trigger_dag_id      |-> d[FirstKey(d)],
     trigger_run_id      |-> RunIdOf(d, time),
     wait_for_completion |-> TRUE,
     reset_dag_run       |-> TRUE,
     execution_date      |-> time,
     allowed_states      |-> {"success", "failed"}]

\* the loop of prepare_dag_dependency: one append to each list per input
RECURSIVE prepare_dag_dependency(_, _)
prepare_dag_dependency(info, time) ==
    IF info = <<>>
    THEN [tasks |-> <<>>, run_ids |-> <<>>]
    ELSE LET rest == prepare_dag_dependency(Tail(info), time)
         IN  [tasks   |-> <<TriggerDagRunOperator(Head(info), time)>> \o rest.tasks,
              run_ids |-> <<RunIdOf(Head(info), time)>> \o rest.run_ids]


-----------------------------------------------------------------------------
(* get_report *)

TaskStates == {"success", "failed", "upstream_failed", "skipped"}

EnvVars == {"ASTRONOMER_RUNTIME_VERSION", "PYTHON_VERSION", "AIRFLOW__WEBSERVER__BASE_URL"}

\* the tasks whose return value get_report pulls
XcomTasks == {"get_airflow_version", "get_airflow_executor",
              "get_astro_sdk_version", "get_astro_cloud_provider"}

\* os.getenv(name, default)
Getenv(e, name, default) == IF e[name] = None THEN default ELSE e[name][1]

\* context["ti"].xcom_pull(task_ids=task): None when the task pushed nothing
XcomPull(x, task) == x[task]

\* every enumeration of a finite set: the orders an unordered query may return
Orderings(S) == {s \in [1..Cardinality(S) -> S] : Range(s) = S}

\* faulty variant: the query without its run_id filter
QueryUnfiltered(table, ids) == table

\* session.query(DagRun).filter(DagRun.run_id.in_(dag_run_ids))
Query(table, ids) == {dr \in table : dr.run_id \in Range(ids)}

\* the rows of a query with each row's task instances in some order
RECURSIVE TiOrders(_)
TiOrders(rows) ==
    IF rows = <<>> THEN {<<>>}
    ELSE {<<[Head(rows) EXCEPT !.tis = tis]>> \o rest :
             tis \in Orderings(Head(rows).tis), rest \in TiOrders(Tail(rows))}

\* what .all() and dr.get_task_instances() can return: the rows in any order
LoadOrders(rows) == UNION {TiOrders(order) : order \in Orderings(rows)}

\* f"*{header}:* <bq>{value}<bq>\n"; the backquote <bq> is written ^ here
DetailLine(header, value) == "*" \o header \o ":* ^" \o PyStr(value) \o "^\n"

ReportDetails(e, x) ==
    <<"Results generated for:\n\n",
      DetailLine("Runtime version", Some(Getenv(e, "ASTRONOMER_RUNTIME_VERSION", "N/A"))),
      DetailLine("Python version", Some(Getenv(e, "PYTHON_VERSION", "N/A"))),
      DetailLine("Airflow version", XcomPull(x, "get_airflow_version")),
      DetailLine("Executor", XcomPull(x, "get_airflow_executor")),
      DetailLine("Astro-SDK version", XcomPull(x, "get_astro_sdk_version")),
      DetailLine("Cloud provider", XcomPull(x, "get_astro_cloud_provider")),
      "\n">>

DeploymentMessage(e) ==
    "\n <" \o e["AIRFLOW__WEBSERVER__BASE_URL"][1]
           \o "/dags/example_master_dag/grid?search=example_master_dag"
           \o "|Link> to the master DAG deployment of the above run \n"

\* the tasks of a run that the inner loop looks at
Excluded(ti) == (ti.task_id = "end") \/ (ti.task_id = "get_report")

Reported(ti) == ~Excluded(ti) /\ ti.state # "success"

\* faulty variant: one marker for every status
TaskCodeOneMarker(ti) == ":red_circle: "

TaskCode(ti) ==
    IF ti.state = "failed" THEN ":red_circle: "
    ELSE IF ti.state = "upstream_failed" THEN ":large_orange_circle: "
    ELSE ":black_circle: "

\* f"{task_code} {ti.task_id} : {ti.state} \n"
FailedTaskLine(ti) == TaskCode(ti) \o " " \o ti.task_id \o " : " \o ti.state \o " \n"

\* failed_tasks of one run, in the order its task instances were returned
FailedTasks(dr) ==
    LET sel == SelectSeq(dr.tis, Reported)
    IN  [i \in DOMAIN sel |-> FailedTaskLine(sel[i])]

\* f" *{dr.dag_id} : {dr.get_state()}* \n"
DrStatus(dr) == " *" \o dr.dag_id \o " : " \o dr.state \o "* \n"

\* faulty variant: the "if failed_tasks:" block run once after the loop, for the
\* last run only
ScanRunsAfterLoop(runs, acc) ==
    IF runs = <<>> THEN acc
    ELSE LET dr == runs[Len(runs)]
         IN  IF FailedTasks(dr) # <<>>
             THEN [dag_count        |-> acc.dag_count + Len(runs),
                   failed_dag_count |-> acc.failed_dag_count + 1,
                   message_list     |-> acc.message_list \o <<DrStatus(dr)>> \o FailedTasks(dr)]
             ELSE [acc EXCEPT !.dag_count = @ + Len(runs)]

\* the loop over last_dags_runs: the counters and message_list after it
RECURSIVE ScanRuns(_, _)
ScanRuns(runs, acc) ==
    IF runs = <<>> THEN acc
    ELSE LET dr == Head(runs)
             failed_tasks == FailedTasks(dr)
         IN  ScanRuns(Tail(runs),
                 IF failed_tasks # <<>>
                 THEN [dag_count        |-> acc.dag_count + 1,
                       failed_dag_count |-> acc.failed_dag_count + 1,
                       message_list     |-> acc.message_list \o <<DrStatus(dr)>> \o failed_tasks]
                 ELSE [acc EXCEPT !.dag_count = @ + 1])

\* faulty variant: the section is appended unconditionally
FailureDetailsAlways(scan) == <<"*Failure Details:* \n">> \o scan.message_list

\* "*Failure Details:* \n" and the accumulated lines, when a run failed
FailureDetails(scan) ==
    IF scan.failed_dag_count > 0
    THEN <<"*Failure Details:* \n">> \o scan.message_list
    ELSE <<>>

\* faulty variant: every task that is not success is listed
MasterFailedAny(ti) == ti.state # "success"

MasterFailed(ti) == ti.state = "failed"

\* the warning section about the master run's own failed tasks
TaskFailureSection(tis) ==
    LET sel == SelectSeq(tis, MasterFailed)
        task_failure_message_list == [i \in DOMAIN sel |-> ":red_circle: " \o sel[i].task_id \o " \n"]
    IN  IF task_failure_message_list # <<>>
        THEN <<"\nSome of Master DAG tasks failed, please check with deployment link below \n">>
                 \o task_failure_message_list
        ELSE <<>>

NotRun ==
    [raised |-> "none", output_list |-> <<>>, dag_count |-> 0, failed_dag_count |-> 0,
     logged |-> <<>>, sent |-> <<>>]

\* one invocation of get_report on the rows as loaded
get_report(last_dags_runs, task_instances, e, x, ok) ==
    IF e["AIRFLOW__WEBSERVER__BASE_URL"] = None
    THEN [NotRun EXCEPT !.raised = "KeyError"]
    ELSE LET scan == ScanRuns(last_dags_runs,
                         [dag_count |-> 0, failed_dag_count |-> 0, message_list |-> <<>>])
             output_list ==
                 ReportDetails(e, x)
                 \o <<"*Total DAGS*: " \o ToString(scan.dag_count) \o " \n",
                      "*Success DAGS*: " \o ToString(scan.dag_count - scan.failed_dag_count)
                                         \o " :green_apple: \n",
                      "*Failed DAGS*: " \o ToString(scan.failed_dag_count) \o " :apple: \n \n">>
                 \o FailureDetails(scan)
                 \o TaskFailureSection(task_instances)
                 \o <<DeploymentMessage(e)>>
         IN  [raised           |-> IF ok THEN "none" ELSE "SlackError",
              output_list      |-> output_list,
              dag_count        |-> scan.dag_count,
              failed_dag_count |-> scan.failed_dag_count,
              logged           |-> <<Join(output_list)>>
                                   \o (IF ok THEN <<>> ELSE <<"Error occur while sending slack alert.">>),
              sent             |-> IF ok THEN <<Join(output_list)>> ELSE <<>>]

-----------------------------------------------------------------------------
(* The data get_report is run on *)

\* the i-th triggered dag; its run id is the one prepare_dag_dependency gives it
ReportDagId(i) ==
    CASE i = 1 -> "example_load_file"
      [] i = 2 -> "example_dataframe"
      [] OTHER -> "example_append"

ReportRunId(i) == RunIdOf(Dict(ReportDagId(i), ReportDagId(i)), "2023-01-01")

\* the tasks of the i-th triggered dag
DagTasks(i) ==
    CASE i = 1 -> {"load", "save"}
      [] i = 2 -> {"transform", "end", "get_report"}
      [] OTHER -> {"check"}

\* DagRun.state of a finished run
RunState(st) ==
    IF \E t \in DOMAIN st : st[t] \in {"failed", "upstream_failed"} THEN "failed" ELSE "success"

DagRun(i, st) ==
    [run_id |-> ReportRunId(i),
     dag_id |-> ReportDagId(i),
     state  |-> RunState(st),
     tis    |-> {[task_id |-> t, state |-> st[t]] : t \in DOMAIN st}]

RunsOf(i) == {DagRun(i, st) : st \in [DagTasks(i) -> TaskStates]}

\* a run of another dag that is in the table but was not asked for
ForeignRun ==
    [run_id |-> "manual__2023-01-01",
     dag_id |-> "example_master_dag",
     state  |-> "running",
     tis    |-> {[task_id |-> "start", state |-> "failed"]}]

\* the tables in which any subset of the first n runs is stored
RECURSIVE Tables(_)
Tables(n) ==
    IF n = 0 THEN {{ForeignRun}}
    ELSE {t \cup x : t \in Tables(n - 1), x \in {{}} \cup {{dr} : dr \in RunsOf(n)}}

\* a few tables: nothing stored, and the first run with every task failed
FewTables == {{ForeignRun}, {ForeignRun, DagRun(1, [t \in DagTasks(1) |-> "failed"])}}

AllSet == [v \in EnvVars |-> Some(IF v = "AIRFLOW__WEBSERVER__BASE_URL" THEN "http://host" ELSE "1.0")]

Envs == {[v \in EnvVars |-> IF v \in unset THEN None ELSE AllSet[v]] : unset \in SUBSET EnvVars}

\* the master run's tasks get_report reads, in the order the dag defines them
MasterTaskSeq == <<"start", "get_airflow_version", "get_airflow_executor",
                   "get_astro_sdk_version", "get_astro_cloud_provider">>

\* outcomes of the master's tasks: the version tasks run only after a successful start
MasterOutcomes ==
    {[t \in Range(MasterTaskSeq) |-> IF t = "start" THEN "success" ELSE st[t]] :
        st \in [XcomTasks -> {"success", "failed"}]}
    \cup {[t \in Range(MasterTaskSeq) |-> IF t = "start" THEN "failed" ELSE "upstream_failed"]}

AllSuccess == [t \in Range(MasterTaskSeq) |-> "success"]

Reverse(s) == [i \in DOMAIN s |-> s[Len(s) + 1 - i]]

\* the orders in which the master's task instances are returned
MasterOrders == {MasterTaskSeq, Reverse(MasterTaskSeq)}

MasterTis(order, m) == [i \in DOMAIN order |-> [task_id |-> order[i], state |-> m[order[i]]]]

\* a BashOperator with do_xcom_push pushes its output when it succeeds
XcomOf(m) == [t \in XcomTasks |-> IF m[t] = "success" THEN Some("v-" \o t) ELSE None]

BuilderIdle ==
    /\ task_info = <<>>
    /\ execution_time = "{{ ds }}"
    /\ built = FALSE
    /\ task_list = <<>>
    /\ built_run_ids = <<>>

ReportIdle ==
    /\ db = {}
    /\ dag_run_ids = <<>>
    /\ env = AllSet
    /\ xcom = XcomOf(AllSuccess)
    /\ master_tis = <<>>
    /\ slack_ok = TRUE
    /\ calls = 0
    /\ report = NotRun

-----------------------------------------------------------------------------
(* example_master_dag: its tasks, their dependencies and trigger rules *)

Min(a, b) == IF a < b THEN a ELSE b

Prefix(s, n) == SubSeq(s, 1, Min(n, Len(s)))

\* list_installed_pip_packages and the get_* tasks, as listed in the dag
InfoTaskSeq == <<"get_airflow_version", "get_astro_sdk_version", "list_installed_pip_packages",
                 "get_airflow_executor", "get_astro_cloud_provider">>

InfoTasks == Range(Prefix(InfoTaskSeq, MaxInfo))

\* the *_task_info lists, in the order the dag defines its groups
GroupDagIds ==
    << <<"example_google_bigquery_gcs_load_and_save", "example_amazon_s3_postgres_load_and_save",
         "example_amazon_s3_postgres", "example_load_file">>,
       <<"example_amazon_s3_snowflake_transform", "example_transform_mssql">>,
       <<"example_dataframe">>,
       <<"example_append", "example_snowflake_partial_table_with_append">>,
       <<"example_merge_bigquery">>,
       <<"example_dynamic_map_task", "example_dynamic_task_template">>,
       <<"data_validation_check_column">>,
       <<"example_dataset_producer">>,
       <<"example_snowflake_cleanup">> >>

TaskInfo(g) == [i \in DOMAIN GroupDagIds[g] |-> Dict(GroupDagIds[g][i], GroupDagIds[g][i])]

Groups == 1..Min(MaxGroups, Len(GroupDagIds))

\* <group>_trigger_tasks, ids = prepare_dag_dependency(<group>_task_info, "{{ ds }}")
TriggerTasks(g) == Prefix(prepare_dag_dependency(TaskInfo(g), "{{ ds }}").tasks, MaxChain)

TriggerIds(g) == [i \in DOMAIN TriggerTasks(g) |-> TriggerTasks(g)[i].task_id]

\* chain(*tasks): each task is upstream of the next
Chain(ids) == {<<ids[i], ids[i + 1]>> : i \in 1..(Len(ids) - 1)}

\* faulty variant: only the first group hangs off the connection task, and
\* every later group's first trigger is downstream of the group before it
FanOutGroupsChained ==
    {<<"start", "start_sftp_ftp_services">>,
     <<"start_sftp_ftp_services", "create_sftp_ftp_default_airflow_connection">>}
    \cup {<<"create_sftp_ftp_default_airflow_connection", t>> :
             t \in InfoTasks \cup {TriggerIds(1)[1]}}
    \cup {<<TriggerIds(g)[Len(TriggerIds(g))], TriggerIds(g + 1)[1]>> :
             g \in {h \in Groups : h + 1 \in Groups}}

\* start >> start_sftp_ftp_services >> create_... >> [the info tasks and each group's first]
FanOut ==
    {<<"start", "start_sftp_ftp_services">>,
     <<"start_sftp_ftp_services", "create_sftp_ftp_default_airflow_connection">>}
    \cup {<<"create_sftp_ftp_default_airflow_connection", t>> :
            t \in InfoTasks \cup {TriggerIds(g)[1] : g \in Groups}}

\* last_task: the info tasks and each group's last trigger task
LastTask == InfoTasks \cup {TriggerIds(g)[Len(TriggerIds(g))] : g \in Groups}

\* last_task >> end, last_task >> report, last_task >> terminate_ec2_instance
FanIn == {<<t, d>> : t \in LastTask, d \in {"end", "get_report", "terminate_instance"}}

Edges == FanOut \cup UNION {Chain(TriggerIds(g)) : g \in Groups} \cup FanIn

Tasks == {e[1] : e \in Edges} \cup {e[2] : e \in Edges}

Upstream(t) == {e[1] : e \in {x \in Edges : x[2] = t}}

\* faulty variant: no operator overrides the default trigger rule
TriggerRuleDefault(t) == "all_success"

\* trigger_rule of the operator; all_success is the default
TriggerRule(t) ==
    IF t \in {"get_report", "terminate_instance"} THEN "all_done" ELSE "all_success"

Finished == {"success", "failed", "upstream_failed"}

\* the scheduler may run the task: its trigger rule is met
Runnable(t) ==
    /\ ti_state[t] = "none"
    /\ IF TriggerRule(t) = "all_done"
       THEN \A u \in Upstream(t) : ti_state[u] \in Finished
       ELSE \A u \in Upstream(t) : ti_state[u] = "success"

\* all_success: a failed upstream task fails the task without running it
Blocked(t) ==
    /\ ti_state[t] = "none"
    /\ TriggerRule(t) = "all_success"
    /\ \E u \in Upstream(t) : ti_state[u] \in {"failed", "upstream_failed"}

\* the trigger tasks of the executed groups, by task id
TriggerTaskIds == UNION {Range(TriggerIds(g)) : g \in Groups}

\* the operators of these tasks, as prepare_dag_dependency built them
TriggerOperators == UNION {Range(TriggerTasks(g)) : g \in Groups}

Operator(t) == CHOOSE op \in TriggerOperators : op.task_id = t

\* the operators are built without failed_states: the operator's default applies
FailedStates(op) == {"failed"}

\* wait_for_completion: the state the trigger task takes when the run it
\* triggered is seen in state st; failed_states is looked at first
WaitForCompletion(op, st) ==
    IF st \in FailedStates(op) THEN "failed"
    ELSE IF st \in op.allowed_states THEN "success"
    ELSE "running"

\* the module-level constants naming the XCom keys
EC2_INSTANCE_ID_KEY == "ec2_instance_id"
INSTANCE_PUBLIC_IP == "instance_public_ip"

\* the instance id ec2.create_instances hands out
InstanceIds == {"i-0a"}

\* PublicIpAddress of the running instance
PublicIp(id) == "ip-of-" \o id

\* faulty variant: the id is pulled under the key of the public address
PulledInstanceIdWrongKey(x) == x[INSTANCE_PUBLIC_IP]

\* xcom_pull(key=EC2_INSTANCE_ID_KEY, task_ids=["start_sftp_ftp_services"])[0]
PulledInstanceId(x) == x[EC2_INSTANCE_ID_KEY]

\* tasks whose callable is modelled by actions of its own
Special == TriggerTaskIds \cup {"start_sftp_ftp_services", "terminate_instance"}

\* faulty variant: the list is replaced by, not extended with, the new ids
ExtendReplaces(list, ids) == ids

\* dag_run_ids.extend(ids)
Extend(list, ids) == list \o ids

\* the report operator has been defined: the dag file has been parsed
Defined == report_kwargs # None

DagIdle ==
    /\ ti_state = [t \in Tasks |-> "none"]
    /\ exec_count = [t \in Tasks |-> 0]
    /\ remote = [t \in TriggerTaskIds |-> "none"]
    /\ instance = None
    /\ ti_xcom = [k \in {EC2_INSTANCE_ID_KEY, INSTANCE_PUBLIC_IP} |-> None]
    /\ terminated = <<>>
    /\ groups_done = 0
    /\ returned = <<>>
    /\ ids_list = <<>>
    /\ report_kwargs = None

DagInit == BuilderIdle /\ ReportIdle /\ DagIdle

\* one group of the dag file: X_trigger_tasks, ids = prepare_dag_dependency(X_task_info,
\* "{{ ds }}"); dag_run_ids.extend(ids)
DefineGroup ==
    /\ groups_done < Len(GroupDagIds)
    /\ LET r == prepare_dag_dependency(TaskInfo(groups_done + 1), "{{ ds }}")
       IN  /\ returned' = Append(returned, r)
           /\ ids_list' = Extend(ids_list, r.run_ids)
    /\ groups_done' = groups_done + 1
    /\ UNCHANGED <<bvars, rvars, dvars, evars, report_kwargs>>

\* report = PythonOperator(..., op_kwargs={"dag_run_ids": dag_run_ids}, ...)
DefineReport ==
    /\ groups_done = Len(GroupDagIds)
    /\ ~Defined
    /\ report_kwargs' = Some(ids_list)
    /\ UNCHANGED <<bvars, rvars, dvars, evars, groups_done, returned, ids_list>>

\* the scheduler starts a task whose trigger rule is met; a trigger task
\* creates the run of its target dag
StartTask ==
    \E t \in Tasks :
        /\ Defined
        /\ Runnable(t)
        /\ ti_state' = [ti_state EXCEPT ![t] = "running"]
        /\ exec_count' = [exec_count EXCEPT ![t] = @ + 1]
        /\ remote' = IF t \in TriggerTaskIds THEN [remote EXCEPT ![t] = "running"] ELSE remote
        /\ UNCHANGED <<bvars, rvars, mvars, instance, ti_xcom, terminated>>

\* the scheduler marks a task whose upstream failed
MarkUpstreamFailed ==
    \E t \in Tasks :
        /\ Blocked(t)
        /\ ti_state' = [ti_state EXCEPT ![t] = "upstream_failed"]
        /\ UNCHANGED <<bvars, rvars, mvars, evars, exec_count>>

\* the task's callable returns
TaskSucceeds ==
    \E t \in Tasks \ Special :
        /\ ti_state[t] = "running"
        /\ ti_state' = [ti_state EXCEPT ![t] = "success"]
        /\ UNCHANGED <<bvars, rvars, mvars, evars, exec_count>>

\* the task's callable raises
TaskFails ==
    \E t \in Tasks \ Special :
        /\ ti_state[t] = "running"
        /\ ti_state' = [ti_state EXCEPT ![t] = "failed"]
        /\ UNCHANGED <<bvars, rvars, mvars, evars, exec_count>>

\* the triggered run ends in success or failed and the waiting trigger task sees it
TriggeredRunEnds ==
    \E t \in TriggerTaskIds, st \in {"success", "failed"} :
        /\ ti_state[t] = "running"
        /\ remote[t] = "running"
        /\ remote' = [remote EXCEPT ![t] = st]
        /\ ti_state' = [ti_state EXCEPT ![t] = WaitForCompletion(Operator(t), st)]
        /\ UNCHANGED <<bvars, rvars, mvars, exec_count, instance, ti_xcom, terminated>>

\* start_sftp_ftp_services_method: ec2.create_instances returns and the id is pushed
CreateInstances ==
    \E id \in InstanceIds :
        /\ ti_state["start_sftp_ftp_services"] = "running"
        /\ instance = None
        /\ instance' = Some(id)
        /\ ti_xcom' = [ti_xcom EXCEPT ![EC2_INSTANCE_ID_KEY] = Some(id)]
        /\ UNCHANGED <<bvars, rvars, mvars, dvars, remote, terminated>>

\* start_sftp_ftp_services_method: ec2.create_instances raises
CreateInstancesFails ==
    /\ ti_state["start_sftp_ftp_services"] = "running"
    /\ instance = None
    /\ ti_state' = [ti_state EXCEPT !["start_sftp_ftp_services"] = "failed"]
    /\ UNCHANGED <<bvars, rvars, mvars, evars, exec_count>>

\* get_instances_status sees the instance running: the address is pushed and
\* the polling loop of start_sftp_ftp_services_method ends
InstanceRunning ==
    /\ ti_state["start_sftp_ftp_services"] = "running"
    /\ instance # None
    /\ ti_xcom' = [ti_xcom EXCEPT ![INSTANCE_PUBLIC_IP] = Some(PublicIp(instance[1]))]
    /\ ti_state' = [ti_state EXCEPT !["start_sftp_ftp_services"] = "success"]
    /\ UNCHANGED <<bvars, rvars, mvars, exec_count, remote, instance, terminated>>

\* get_instances_status raises after the instance was created
StatusFails ==
    /\ ti_state["start_sftp_ftp_services"] = "running"
    /\ instance # None
    /\ ti_state' = [ti_state EXCEPT !["start_sftp_ftp_services"] = "failed"]
    /\ UNCHANGED <<bvars, rvars, mvars, evars, exec_count>>

\* terminate_instance: the pulled id is handed to ec2.terminate_instances,
\* which returns or raises; without a pushed id the callable raises
TerminateInstance ==
    /\ ti_state["terminate_instance"] = "running"
    /\ LET id == PulledInstanceId(ti_xcom)
       IN  IF id = None
           THEN /\ ti_state' = [ti_state EXCEPT !["terminate_instance"] = "failed"]
                /\ UNCHANGED terminated
           ELSE /\ terminated' = Append(terminated, id[1])
                /\ \E st \in {"success", "failed"} :
                       ti_state' = [ti_state EXCEPT !["terminate_instance"] = st]
    /\ UNCHANGED <<bvars, rvars, mvars, exec_count, remote, instance, ti_xcom>>

DagNext ==
    \/ DefineGroup
    \/ DefineReport
    \/ StartTask
    \/ MarkUpstreamFailed
    \/ TaskSucceeds
    \/ TaskFails
    \/ TriggeredRunEnds
    \/ CreateInstances
    \/ CreateInstancesFails
    \/ InstanceRunning
    \/ StatusFails
    \/ TerminateInstance

SpecDag == DagInit /\ [][DagNext]_vars

\* the dag file is parsed to its end, the scheduler keeps scheduling, a running
\* callable returns or raises, and a triggered run ends: as long as one of
\* these steps is possible, a step is taken
FairSpecDag == SpecDag /\ WF_vars(DagNext)

BuilderInit ==
    /\ ReportIdle
    /\ DagIdle
    /\ task_info \in SeqsUpTo({Dict(k, v) : k \in Ids, v \in Ids}, MaxSpecs)
    /\ execution_time \in Times
    /\ built = FALSE
    /\ task_list = <<>>
    /\ built_run_ids = <<>>

PrepareDagDependency ==
    /\ ~built
    /\ built' = TRUE
    /\ task_list' = prepare_dag_dependency(task_info, execution_time).tasks
    /\ built_run_ids' = prepare_dag_dependency(task_info, execution_time).run_ids
    /\ UNCHANGED <<task_info, execution_time, rvars, dvars, evars, mvars>>

BuilderNext == PrepareDagDependency

SpecBuilder == BuilderInit /\ [][BuilderNext]_vars

ReportInit ==
    /\ BuilderIdle
    /\ DagIdle
    /\ dag_run_ids = [i \in 1..MaxRuns |-> ReportRunId(i)]
    /\ calls = 0
    /\ report = NotRun
    /\ \E m \in MasterOutcomes, order \in MasterOrders :
          /\ master_tis = MasterTis(order, m)
          /\ xcom = XcomOf(m)
          /\ \/ /\ m = AllSuccess
                /\ order = MasterTaskSeq
                /\ db \in Tables(MaxRuns)
                /\ env = AllSet
                /\ slack_ok = TRUE
             \/ /\ db \in FewTables
                /\ env \in Envs
                /\ slack_ok \in BOOLEAN

\* the get_report task runs once (trigger_rule all_done, no retries)
GetReport ==
    /\ calls = 0
    /\ calls' = 1
    /\ \E last_dags_runs \in LoadOrders(Query(db, dag_run_ids)) :
          report' = get_report(last_dags_runs, master_tis, env, xcom, slack_ok)
    /\ UNCHANGED <<bvars, dvars, evars, mvars, db, dag_run_ids, env, xcom, master_tis, slack_ok>>

ReportNext == GetReport

SpecReport == ReportInit /\ [][ReportNext]_vars

-----------------------------------------------------------------------------
(* Properties of prepare_dag_dependency, checked under SpecBuilder *)

\* C1: for a list of N single-entry mappings task_id -> target_id and a timestamp T,
\* prepare_dag_dependency returns N tasks and N run ids in input order; the i-th run
\* id is task_id_i + "_" + target_id_i + "_" + T and the i-th task carries task_id_i,
\* target_id_i and that run id.
C1_BuilderOutput ==
    built =>
        /\ Len(task_list) = Len(task_info)
        /\ Len(built_run_ids) = Len(task_info)
        /\ \A i \in DOMAIN task_info :
              \E k \in DOMAIN task_info[i] :
                 /\ built_run_ids[i] = k \o "_" \o task_info[i][k] \o "_" \o execution_time
                 /\ task_list[i].task_id = k
                 /\ task_list[i].trigger_dag_id = task_info[i][k]
                 /\ task_list[i].trigger_run_id = built_run_ids[i]

C1_Witness ==
    /\ built
    /\ Len(task_info) = MaxSpecs
    /\ task_info[1] # task_info[2]
    /\ \E k \in DOMAIN task_info[1] : task_info[1][k] # k

\* C10: when the (task_id, target_id) pairs handed to the builder are pairwise
\* distinct, the run ids generated for them with one timestamp are pairwise distinct.
C10_DistinctPairsDistinctRunIds ==
    (built /\ \A i, j \in DOMAIN task_info : i # j => task_info[i] # task_info[j])
        => \A i, j \in DOMAIN built_run_ids : i # j => built_run_ids[i] # built_run_ids[j]

-----------------------------------------------------------------------------
(* Properties of get_report, checked under SpecReport *)

\* C2: dag_count is the number of loaded records; failed_dag_count is the number of
\* loaded records with a child task, other than "end" and "get_report", whose status
\* is not "success"; each such task has exactly one report line naming it and its
\* status, under its run's header line, with a marker that is different for "failed",
\* for "upstream_failed" and for every other status.
C2_CountsAndFailingLines ==
    LET loaded == {dr \in db : \E i \in DOMAIN dag_run_ids : dag_run_ids[i] = dr.run_id}
        failing(dr) == {ti \in dr.tis : ti.task_id \notin {"end", "get_report"}
                                        /\ ti.state # "success"}
        marker(st) == CASE st = "failed" -> ":red_circle: "
                        [] st = "upstream_failed" -> ":large_orange_circle: "
                        [] OTHER -> ":black_circle: "
        line(ti) == marker(ti.state) \o " " \o ti.task_id \o " : " \o ti.state \o " \n"
        header(dr) == " *" \o dr.dag_id \o " : " \o dr.state \o "* \n"
        lines == report.output_list
    IN  (calls = 1 /\ report.raised # "KeyError") =>
            /\ report.dag_count = Cardinality(loaded)
            /\ report.failed_dag_count = Cardinality({dr \in loaded : failing(dr) # {}})
            /\ \A dr \in loaded : \A ti \in failing(dr) :
                  /\ Cardinality({k \in DOMAIN lines : lines[k] = line(ti)}) = 1
                  /\ \E h \in DOMAIN lines :
                        /\ lines[h] = header(dr)
                        /\ \E k \in (h + 1)..(h + Cardinality(failing(dr))) :
                              k \in DOMAIN lines /\ lines[k] = line(ti)

\* r1 all success, r2 with one failed and one upstream_failed task
C2_Witness ==
    /\ calls = 1
    /\ report.dag_count = 2
    /\ report.failed_dag_count = 1
    /\ \E dr \in db : {ti.state : ti \in dr.tis} = {"failed", "upstream_failed"}
    /\ \E dr \in db : dr.run_id \in Range(dag_run_ids)
                      /\ {ti.state : ti \in dr.tis} = {"success"}

\* C3: the report has the "Failure Details" section iff failed_dag_count > 0; when
\* every loaded record's tasks other than "end" and "get_report" are all "success",
\* failed_dag_count is 0, the successful-run count is dag_count and there is no
\* "Failure Details" section.
C3_FailureDetailsIffFailed ==
    LET loaded == {dr \in db : \E i \in DOMAIN dag_run_ids : dag_run_ids[i] = dr.run_id}
        lines == Range(report.output_list)
    IN  (calls = 1 /\ report.raised # "KeyError") =>
            /\ ("*Failure Details:* \n" \in lines) <=> (report.failed_dag_count > 0)
            /\ (\A dr \in loaded : \A ti \in dr.tis :
                    ti.task_id \in {"end", "get_report"} \/ ti.state = "success")
                => /\ report.failed_dag_count = 0
                   /\ ("*Success DAGS*: " \o ToString(report.dag_count) \o " :green_apple: \n")
                          \in lines
                   /\ "*Failure Details:* \n" \notin lines

\* every loaded run succeeded although an "end" or "get_report" task did not
C3_Witness ==
    /\ calls = 1
    /\ report.raised # "KeyError"
    /\ report.dag_count = 2
    /\ report.failed_dag_count = 0
    /\ \E dr \in db : \E ti \in dr.tis : ti.task_id = "get_report" /\ ti.state = "failed"
    /\ "*Failure Details:* \n" \notin Range(report.output_list)

\* C4: run ids without a stored record raise no error, and the counters and lines
\* come from the found records only: dag_count is the number of found records, and a
\* missing run is counted neither as successful nor as failed.
C4_MissingRunsIgnored ==
    LET found == {i \in DOMAIN dag_run_ids : \E dr \in db : dr.run_id = dag_run_ids[i]}
        lines == Range(report.output_list)
    IN  (calls = 1 /\ report.raised # "KeyError") =>
            /\ slack_ok => report.raised = "none"
            /\ report.dag_count = Cardinality(found)
            /\ report.failed_dag_count <= Cardinality(found)
            /\ ("*Total DAGS*: " \o ToString(Cardinality(found)) \o " \n") \in lines
            /\ ("*Success DAGS*: "
                   \o ToString(Cardinality(found) - report.failed_dag_count)
                   \o " :green_apple: \n") \in lines
            /\ ("*Failed DAGS*: " \o ToString(report.failed_dag_count) \o " :apple: \n \n")
                   \in lines

\* two run ids asked for, one of them stored
C4_Witness ==
    /\ calls = 1
    /\ report.raised = "none"
    /\ Len(dag_run_ids) = 2
    /\ Cardinality({i \in DOMAIN dag_run_ids : \E dr \in db : dr.run_id = dag_run_ids[i]}) = 1
    /\ report.dag_count = 1

\* C5: the report has the "Some of Master DAG tasks failed" section iff a task
\* instance of the master run has status "failed"; the section then has one line for
\* each such task and none for any other task.
C5_MasterFailedSection ==
    LET lines == report.output_list
        warning == "\nSome of Master DAG tasks failed, please check with deployment link below \n"
        failed == {i \in DOMAIN master_tis : master_tis[i].state = "failed"}
        own(i) == ":red_circle: " \o master_tis[i].task_id \o " \n"
    IN  (calls = 1 /\ report.raised # "KeyError") =>
            /\ (warning \in Range(lines)) <=> (failed # {})
            /\ \A i \in DOMAIN master_tis : (own(i) \in Range(lines)) <=> (i \in failed)
            /\ \A w \in DOMAIN lines :
                  lines[w] = warning =>
                     /\ Len(lines) = w + Cardinality(failed) + 1
                     /\ \A i \in failed : \E k \in (w + 1)..(Len(lines) - 1) : lines[k] = own(i)

\* start failed and the tasks after it are upstream_failed
C5_Witness ==
    /\ calls = 1
    /\ report.raised # "KeyError"
    /\ \E i \in DOMAIN master_tis : master_tis[i].state = "failed"
    /\ \E i \in DOMAIN master_tis : master_tis[i].state = "upstream_failed"

\* C7: get_report fails when the dispatch fails, and for every other input it
\* completes successfully provided the dispatch succeeds.
C7_OnlyDispatchFails ==
    calls = 1 =>
        /\ slack_ok => report.raised = "none"
        /\ (~slack_ok /\ report.raised = "SlackError") =>
               "Error occur while sending slack alert." \in Range(report.logged)

\* C8: the header lists the facts one per line in the declared order, and a fact
\* that was not resolved upstream (an unset environment variable, a value its
\* task did not push) is shown as "N/A".
C8_UnresolvedFactsShownAsNA ==
    LET shown(v) == IF v = None THEN "N/A" ELSE v[1]
        fact(name, v) == "*" \o name \o ":* ^" \o shown(v) \o "^\n"
    IN  (calls = 1 /\ report.raised # "KeyError") =>
            SubSeq(report.output_list, 2, 7) =
                <<fact("Runtime version", env["ASTRONOMER_RUNTIME_VERSION"]),
                  fact("Python version", env["PYTHON_VERSION"]),
                  fact("Airflow version", xcom["get_airflow_version"]),
                  fact("Executor", xcom["get_airflow_executor"]),
                  fact("Astro-SDK version", xcom["get_astro_sdk_version"]),
                  fact("Cloud provider", xcom["get_astro_cloud_provider"])>>

\* one fixed load order of a set of rows, to compare the order that was loaded with
RECURSIVE OneOrder(_)
OneOrder(S) ==
    IF S = {} THEN <<>>
    ELSE LET x == CHOOSE y \in S : TRUE IN <<x>> \o OneOrder(S \ {x})

FixedLoad(rows) == [i \in DOMAIN OneOrder(rows) |->
                       [OneOrder(rows)[i] EXCEPT !.tis = OneOrder(OneOrder(rows)[i].tis)]]

\* C9 as stated: whatever the order in which the run records and their task
\* instances are loaded, the report string is the same (here: the same as the one
\* of a fixed load order, so the same for all of them).
C9_SameStringAnyLoadOrder ==
    (calls = 1 /\ report.raised # "KeyError") =>
        Join(get_report(FixedLoad(Query(db, dag_run_ids)), master_tis, env, xcom, slack_ok).output_list)
            = Join(report.output_list)

\* C9 as amended: whatever the load order, the report has the same counters, the
\* same header block and counter lines, the same trailing warning section and link
\* line, and the same Failure Details lines with the same multiplicities (the same
\* as the report of a fixed load order); only the order of the lines inside the
\* Failure Details section follows the load order.
C9_SameLinesAnyLoadOrder ==
    LET bag(s) == [x \in Range(s) |-> Cardinality({i \in DOMAIN s : s[i] = x})]
        again == get_report(FixedLoad(Query(db, dag_run_ids)), master_tis, env, xcom, slack_ok)
        own == Cardinality({i \in DOMAIN master_tis : master_tis[i].state = "failed"})
        tail == IF own = 0 THEN 1 ELSE own + 2
        n == Len(report.output_list)
    IN  (calls = 1 /\ report.raised # "KeyError") =>
            /\ again.dag_count = report.dag_count
            /\ again.failed_dag_count = report.failed_dag_count
            /\ Len(again.output_list) = n
            /\ SubSeq(again.output_list, 1, 11) = SubSeq(report.output_list, 1, 11)
            /\ report.failed_dag_count > 0 =>
                  /\ report.output_list[12] = "*Failure Details:* \n"
                  /\ again.output_list[12] = "*Failure Details:* \n"
            /\ SubSeq(again.output_list, n - tail + 1, n) = SubSeq(report.output_list, n - tail + 1, n)
            /\ bag(again.output_list) = bag(report.output_list)

\* two failed runs whose blocks were loaded in another order than the fixed one
C9_Witness ==
    /\ calls = 1
    /\ report.raised # "KeyError"
    /\ report.failed_dag_count = 2
    /\ get_report(FixedLoad(Query(db, dag_run_ids)), master_tis, env, xcom, slack_ok).output_list
           # report.output_list

-----------------------------------------------------------------------------
(* Properties of the master dag's execution, checked under FairSpecDag *)

\* C6: whatever the upstream tasks end in, get_report is executed exactly once, and
\* it does not start before every group's last trigger task and every
\* version/environment task has finished.
C6_ReportRunsOnceAfterAll ==
    /\ [](/\ ti_state["get_report"] # "none" => \A t \in LastTask : ti_state[t] \in Finished
          /\ exec_count["get_report"] <= 1
          /\ (\A t \in Tasks : ti_state[t] \in Finished) => exec_count["get_report"] = 1)
    /\ <>(exec_count["get_report"] = 1 /\ ti_state["get_report"] \in {"success", "failed"})

\* get_report has run although one upstream task failed and another never ran
C6_Witness ==
    /\ exec_count["get_report"] = 1
    /\ ti_state["get_report"] = "success"
    /\ \E t \in LastTask : ti_state[t] = "failed"
    /\ \E t \in LastTask : ti_state[t] = "upstream_failed"
    /\ \E t \in LastTask : ti_state[t] = "success"


-----------------------------------------------------------------------------
(* Properties of the master dag's definition and of its trigger groups,    *)
(* checked under SpecDag                                                   *)

RECURSIVE Flatten(_)
Flatten(ss) == IF ss = <<>> THEN <<>> ELSE Head(ss) \o Flatten(Tail(ss))

\* C11: the list of run ids handed to get_report is the concatenation, in
\* group-definition order, of the run-id lists returned by the
\* prepare_dag_dependency calls: every trigger task created in the dag has
\* its run id in the list exactly once, the list holds no other id, and it
\* is as long as there are trigger tasks.
C11_ReportGetsEveryRunIdOnce ==
    Defined =>
        LET list == report_kwargs[1]
            created == Flatten([i \in DOMAIN returned |-> returned[i].tasks])
        IN  /\ Len(returned) = Len(GroupDagIds)
            /\ list = Flatten([i \in DOMAIN returned |-> returned[i].run_ids])
            /\ Len(list) = Len(created)
            /\ \A i \in DOMAIN created : list[i] = created[i].trigger_run_id
            /\ \A i, j \in DOMAIN list : list[i] = list[j] => i = j
            /\ TriggerOperators \subseteq Range(created)

\* get_report runs with the list of a dag whose groups hold several triggers
C11_Witness ==
    /\ Defined
    /\ Len(report_kwargs[1]) > Len(GroupDagIds)
    /\ ti_state["get_report"] = "running"

Started == {"running", "success", "failed"}

\* the pairs of a trigger task and the next one of its group
ChainPairs == UNION {Chain(TriggerIds(g)) : g \in Groups}

\* the first and the last trigger task of each executed group
FirstOf == [g \in Groups |-> TriggerIds(g)[1]]
LastOf == [g \in Groups |-> TriggerIds(g)[Len(TriggerIds(g))]]

\* C12: within a group, trigger i+1 does not start until trigger i has
\* finished, and trigger i finishes only after the run it triggered is in
\* state success or failed; a triggered run that ends failed does not fail
\* its trigger task, so the next trigger of the group is not stopped by it.
C12_ChainWaitsAndToleratesFailedRuns ==
    /\ \A t \in TriggerTaskIds :
           /\ ti_state[t] \in {"success", "failed"} => remote[t] \in {"success", "failed"}
           /\ remote[t] = "failed" => ti_state[t] # "failed"
    /\ \A p \in ChainPairs :
           /\ ti_state[p[2]] \in Started => ti_state[p[1]] \in Finished
           /\ remote[p[1]] = "failed" => ti_state[p[2]] # "upstream_failed"

\* C13, as stated: the first trigger of group N+1 does not start until the
\* last trigger of group N has finished.
C13_GroupsRunOneAfterAnother ==
    \A g \in Groups :
        g + 1 \in Groups =>
            (ti_state[FirstOf[g + 1]] \in Started => ti_state[LastOf[g]] \in Finished)

\* C13, amended: only the triggers of one group are ordered, each starting
\* after the one before it succeeded; the first trigger of every group
\* starts only after create_sftp_ftp_default_airflow_connection succeeded,
\* and from then on it may start whatever state the other groups are in.
C13_GroupsStartTogether ==
    LET conn == "create_sftp_ftp_default_airflow_connection"
    IN  /\ \A g \in Groups :
               /\ ti_state[FirstOf[g]] \in Started => ti_state[conn] = "success"
               /\ (ti_state[conn] = "success" /\ ti_state[FirstOf[g]] = "none")
                      => Runnable(FirstOf[g])
        /\ \A p \in ChainPairs : ti_state[p[2]] \in Started => ti_state[p[1]] = "success"

\* two groups wait for their triggered runs at the same time, the first
\* group still having a trigger to start
C13_Witness ==
    /\ ti_state[FirstOf[1]] = "running"
    /\ ti_state[LastOf[1]] = "none"
    /\ ti_state[FirstOf[2]] = "running"

-----------------------------------------------------------------------------
(* The instance of the sftp/ftp services, checked under FairSpecDag        *)

=============================================================================
